---- MODULE Spec2Model ----
(***************************************************************************)
(* The segment playback scheduler of yt-words.                             *)
(*                                                                         *)
(* The repository holds the App component in several variants.  Two of     *)
(* them carry a scheduler and are modelled here, over the same refs        *)
(* (playerRef, pollingRef, currentRef):                                    *)
(*   - the loop variant (src/unnamed/part_000, second component, lines     *)
(*     357-1018; src/unnamed/part_001 has the same playSegmentAt and       *)
(*     stopAll): playSegmentAt with a repeat budget, an auto-advance       *)
(*     switch, stopAll and Next/Prev.  Specification Spec.                 *)
(*   - the sequence variant (src/src/App.tsx): makeSegments,               *)
(*     visibleSegments, playSequenceFrom, toggleKnownByStart.              *)
(*     Specification SpecApp.                                              *)
(*                                                                         *)
(* Times are integers, in hundredths of a second (1.8 s = 180).            *)
(* A React render closes over the state of that render: a function value   *)
(* created by a render (playSegmentAt, and the interval callback it        *)
(* creates) keeps reading the selectedWords / loops / autoAdvance of the   *)
(* render that created it.  A timer is therefore modelled by the closure  *)
(* of its callback.  clearInterval removes the timer from the set of      *)
(* armed timers, and only armed timers fire (the host event loop never    *)
(* runs the callback of a cleared interval).                              *)
(***************************************************************************)
EXTENDS Integers, Sequences, FiniteSets, TLC

VARIABLES
  \* refs shared by both variants
  playerRef,    \* "none" | "unready" | "ready": playerRef.current
  pollingRef,   \* {} (null) or {closure}: pollingRef.current
  currentRef,   \* {} (null) or {[idx, loop]} / {[idx]}: currentRef.current
  timers,       \* the set of armed interval timers, each the closure of its callback
  \* React state of the loop variant
  segments,     \* Seq of [word, start, end]
  knownWords,   \* the set of words w with knownWords[w] truthy
  loops,
  autoAdvance,
  \* React state of the sequence variant
  words,        \* Seq of [t, word, level]
  windowSec,
  unknownOnly,
  activeId,     \* NoId (null) or the id of the dataset being learned
  store,        \* localStorage: dataset id -> Absent or the stored JSON text
  \* what the last step did, as seen from outside
  op,           \* the handler that ran
  cmds,         \* the player commands it issued, in order
  threw,        \* it ended by an exception thrown to its caller
  tickOf,       \* {} or {closure}: the timer whose callback ran
  tickT,        \* the position the callback read (-1 when none was read)
  pairs,        \* seek+play pairs issued for the current segment since it was started
  raced,        \* the running session replaced one whose timer had not fired yet
  played,       \* the starts of the segments started since the user's last play()
  below,        \* since the last seek a poll read a position inside the segment
  undo          \* the level toggles made in a row, the last two: marker and list before

refs == <<playerRef, pollingRef, currentRef, timers>>
loopState == <<segments, knownWords, loops, autoAdvance>>
appState == <<words, windowSec, unknownOnly, activeId, store>>
seen == <<op, cmds, threw, tickOf, tickT, pairs, raced, played, below, undo>>
vars == <<refs, loopState, appState, seen>>

----------------------------------------------------------------------------
\* Bounds of the model.
MaxLoops == 2
MaxMarkers == 3

\* The ids of the stored datasets (rid()), and activeId = null.
DatasetIds == {"d1", "d2"}
NoId == "null"
\* localStorage.getItem(DS_KEY(id)) === null
Absent == <<>>

\* Default window length, 1.8 s (useState(1.8)).
DefaultWindowSec == 180
\* Math.max(0.3, windowSec): the least length of a window.
MinSegmentSec == 30
\* END_EPS = 0.01: the tolerance of the end test of the sequence variant.
END_EPS == 1

Max(a, b) == IF a >= b THEN a ELSE b

\* Player commands.
CmdRate == [cmd |-> "rate", arg |-> 0]
CmdSeek(t) == [cmd |-> "seek", arg |-> t]
CmdPlay == [cmd |-> "play", arg |-> 0]
CmdPause == [cmd |-> "pause", arg |-> 0]

HasCmd(cs, name) == \E i \in 1..Len(cs) : cs[i].cmd = name

----------------------------------------------------------------------------
\* The loop variant: data.

\* parseUploadedCSV: one segment per row, in row order, end = t + max(0.3, windowSec).
RowSegment(w, t) == [word |-> w, start |-> t, end |-> t + Max(MinSegmentSec, DefaultWindowSec)]

\* The datasets the model starts from, rows in ascending time: one with
\* distinct words, and one that repeats a word (the parser keeps every row).
Datasets ==
  { <<RowSegment("a", 0), RowSegment("b", 500), RowSegment("c", 1200)>>,
    <<RowSegment("a", 0), RowSegment("b", 500), RowSegment("a", 1200)>> }

WordsOf(segs) == {segs[i].word : i \in 1..Len(segs)}

\* selectedWords = segments.map(s => s.word).filter(w => !knownWords[w])
selectedWordsOf(segs, known) ==
  SelectSeq([i \in 1..Len(segs) |-> segs[i].word], LAMBDA w : w \notin known)

selectedWords == selectedWordsOf(segments, knownWords)

\* segments.find(s => s.word === word): {} or {the first segment with that word}
FindSegment(segs, word) ==
  LET hits == {i \in 1..Len(segs) : segs[i].word = word}
  IN IF hits = {} THEN {}
     ELSE {segs[CHOOSE i \in hits : \A j \in hits : i <= j]}

\* The state a render closes over.
Render == [sel |-> selectedWords, loops |-> loops, auto |-> autoAdvance]

----------------------------------------------------------------------------
\* The loop variant: playSegmentAt and its poll callback.

\* What a call leaves behind: currentRef, pollingRef, the armed timers, the
\* commands issued, whether it threw, whether it started a session.
Outcome(cur, poll, tms, cs, ex, st) ==
  [cur |-> cur, poll |-> poll, tms |-> tms, cmds |-> cs, threw |-> ex, started |-> st]

\* playSegmentAt without its clearInterval(pollingRef.current).
playSegmentAtNoClear(index, r, cur, poll, tms) ==
  IF playerRef # "ready" \/ index < 0 \/ index >= Len(r.sel)
     \/ FindSegment(segments, r.sel[index + 1]) = {}
  THEN Outcome(cur, poll, tms, <<>>, FALSE, FALSE)
  ELSE LET seg == CHOOSE sg \in FindSegment(segments, r.sel[index + 1]) : TRUE
           c == [index |-> index, seg |-> seg, sel |-> r.sel,
                 loops |-> r.loops, auto |-> r.auto]
       IN Outcome({[idx |-> index, loop |-> 0]}, {c}, tms \cup {c},
                  <<CmdRate, CmdSeek(seg.start), CmdPlay>>, FALSE, TRUE)

\* playSegmentAt that keeps the repeat counter of the session before it.
playSegmentAtKeepsLoop(index, r, cur, poll, tms) ==
  IF playerRef # "ready" \/ index < 0 \/ index >= Len(r.sel)
     \/ FindSegment(segments, r.sel[index + 1]) = {}
  THEN Outcome(cur, poll, tms, <<>>, FALSE, FALSE)
  ELSE LET seg == CHOOSE sg \in FindSegment(segments, r.sel[index + 1]) : TRUE
           c == [index |-> index, seg |-> seg, sel |-> r.sel,
                 loops |-> r.loops, auto |-> r.auto]
           kept == IF cur = {} THEN 0 ELSE (CHOOSE x \in cur : TRUE).loop
       IN Outcome({[idx |-> index, loop |-> kept]}, {c}, (tms \ poll) \cup {c},
                  <<CmdRate, CmdSeek(seg.start), CmdPlay>>, FALSE, TRUE)

\* playSegmentAt(index) of the render r, called with the refs as given.
\* index is 0-based, as in the source.
playSegmentAt(index, r, cur, poll, tms) ==
  IF playerRef = "none" \/ index < 0 \/ index >= Len(r.sel)
  THEN Outcome(cur, poll, tms, <<>>, FALSE, FALSE)
  ELSE LET found == FindSegment(segments, r.sel[index + 1])
       IN IF found = {}
          THEN Outcome(cur, poll, tms, <<>>, FALSE, FALSE)
          ELSE LET seg == CHOOSE s \in found : TRUE
                   c == [index |-> index, seg |-> seg, sel |-> r.sel,
                         loops |-> r.loops, auto |-> r.auto]
                   started == {[idx |-> index, loop |-> 0]}
               IN IF playerRef = "unready"
                  \* setPlaybackRate throws inside its try; seekTo throws out
                  THEN Outcome(started, poll, tms, <<>>, TRUE, FALSE)
                  ELSE Outcome(started, {c}, (tms \ poll) \cup {c},
                               <<CmdRate, CmdSeek(seg.start), CmdPlay>>, FALSE, TRUE)

\* The render a timer's callback closes over.
RenderOf(c) == [sel |-> c.sel, loops |-> c.loops, auto |-> c.auto]

\* What getCurrentTime can give besides a position: NaN, +Infinity (above
\* every position), or an exception.
NaN == -1000000
PosInfinity == 1000000
Throws == -2000000
FaultReads == {NaN, PosInfinity, Throws}

\* playerRef.current?.getCurrentTime?.() ?? 0, t being what a ready player reports
ReadTime(t) == IF playerRef = "ready" THEN t ELSE 0

\* t >= bound on JavaScript numbers: false when t is NaN
AtOrPast(t, bound) == t # NaN /\ t >= bound

\* The positions a poll can read: short of the end by more than END_EPS, by
\* END_EPS, and at the end, where the callback of c counts a completion.
PollTimes(c) == {c.seg.end - END_EPS - 1, c.seg.end - END_EPS, c.seg.end}

\* The callback with the budget test off by one (cur.loop <= loops).
pollCallbackOneMore(c, t) ==
  LET cur == CHOOSE x \in currentRef : TRUE
      bumped == {[cur EXCEPT !.loop = @ + 1]}
  IN IF currentRef = {} \/ ~(ReadTime(t) >= c.seg.end)
     THEN Outcome(currentRef, pollingRef, timers, <<>>, FALSE, FALSE)
     ELSE IF cur.loop + 1 <= c.loops
     THEN Outcome(bumped, pollingRef, timers,
                  <<CmdSeek(c.seg.start), CmdPlay>>, FALSE, FALSE)
     ELSE IF c.auto
     THEN playSegmentAt(c.index + 1, RenderOf(c), bumped, {}, timers \ pollingRef)
     ELSE Outcome(bumped, {}, timers \ pollingRef, <<CmdPause>>, FALSE, FALSE)

\* The callback that pauses when the budget is used up and leaves its timer
\* armed.
pollCallbackKeepsTimer(c, t) ==
  IF currentRef = {} \/ ~AtOrPast(ReadTime(t), c.seg.end)
  THEN Outcome(currentRef, pollingRef, timers, <<>>, FALSE, FALSE)
  ELSE LET cur == CHOOSE x \in currentRef : TRUE
       IN IF cur.loop + 1 < c.loops
          THEN Outcome({[cur EXCEPT !.loop = @ + 1]}, pollingRef, timers,
                       <<CmdSeek(c.seg.start), CmdPlay>>, FALSE, FALSE)
          ELSE Outcome(currentRef, pollingRef, timers, <<CmdPause>>, FALSE, FALSE)

\* The interval callback of the timer c, reading position t.
pollCallback(c, t) ==
  IF currentRef = {}
  THEN Outcome(currentRef, pollingRef, timers, <<>>, FALSE, FALSE)
  ELSE IF ReadTime(t) = Throws
  THEN Outcome(currentRef, pollingRef, timers, <<>>, TRUE, FALSE)
  ELSE LET cur == CHOOSE x \in currentRef : TRUE
           bumped == {[cur EXCEPT !.loop = @ + 1]}
       IN IF ~AtOrPast(ReadTime(t), c.seg.end)
          THEN Outcome(currentRef, pollingRef, timers, <<>>, FALSE, FALSE)
          ELSE IF cur.loop + 1 < c.loops
          THEN IF playerRef = "ready"
               THEN Outcome(bumped, pollingRef, timers,
                            <<CmdSeek(c.seg.start), CmdPlay>>, FALSE, FALSE)
               ELSE Outcome(bumped, pollingRef, timers, <<>>, TRUE, FALSE)
          ELSE IF c.auto
          THEN playSegmentAt(c.index + 1, RenderOf(c), bumped, {}, timers \ pollingRef)
          ELSE IF playerRef = "ready"
               THEN Outcome(bumped, {}, timers \ pollingRef, <<CmdPause>>, FALSE, FALSE)
               ELSE Outcome(bumped, {}, timers \ pollingRef, <<>>, TRUE, FALSE)

\* stopAll without the guards around pauseVideo.
stopAllUnguarded ==
  Outcome({}, {}, timers \ pollingRef,
          IF playerRef = "ready" THEN <<CmdPause>> ELSE <<>>, playerRef # "ready", FALSE)

\* stopAll without its clearInterval.
stopAllKeepsTimer ==
  Outcome({}, {}, timers, IF playerRef = "ready" THEN <<CmdPause>> ELSE <<>>, FALSE, FALSE)

\* stopAll: the pause is behind ?. and inside a try
stopAll ==
  Outcome({}, {}, timers \ pollingRef,
          IF playerRef = "ready" THEN <<CmdPause>> ELSE <<>>, FALSE, FALSE)

\* seek+play pairs issued for the current segment: 1 after a start, one more
\* for each re-seek.
PairsAfter(o) ==
  IF o.started THEN 1
  ELSE IF HasCmd(o.cmds, "seek") THEN pairs + 1
  ELSE pairs

\* play() replaced a session that the step before had started, so that the
\* replaced session's timer never fired; it stays so while the new session and
\* those it advances to run.
RacedAfter(name, o) ==
  IF o.started /\ name # "tick"
  THEN pollingRef # {} /\ op # "tick" /\ HasCmd(cmds, "seek")
  ELSE IF o.poll = {} THEN FALSE ELSE raced

\* The segments started since the user's last play(): a play() of the user
\* starts the list anew, an advance adds to it, stopAll empties it.
PlayedAfter(name, o) ==
  IF o.started
  THEN IF name = "tick"
       THEN Append(played, (CHOOSE c \in o.poll : TRUE).seg.start)
       ELSE <<(CHOOSE c \in o.poll : TRUE).seg.start>>
  ELSE IF name = "stopAll" THEN <<>> ELSE played

\* A handler's outcome written to the refs and to what was seen of the step.
Apply(name, o) ==
  /\ currentRef' = o.cur
  /\ pollingRef' = o.poll
  /\ timers' = o.tms
  /\ cmds' = o.cmds
  /\ threw' = o.threw
  /\ pairs' = PairsAfter(o)
  /\ raced' = RacedAfter(name, o)
  /\ played' = PlayedAfter(name, o)
  /\ op' = name

----------------------------------------------------------------------------
\* The loop variant: the steps.

NoTick ==
  /\ tickOf' = {}
  /\ tickT' = -1
  /\ below' = IF HasCmd(cmds', "seek") THEN FALSE ELSE below
  /\ IF op' = "toggleKnownByStart" THEN TRUE ELSE undo' = <<>>

\* After a poll of the timer c that read t: a seek starts a playthrough, a
\* position from the start of the segment up to short of its end is one
\* read inside it.
BelowAfter(c, t) ==
  IF HasCmd(cmds', "seek") THEN FALSE
  ELSE below \/ (currentRef # {} /\ ReadTime(t) \notin FaultReads
                 /\ ReadTime(t) >= c.seg.start /\ ReadTime(t) < c.seg.end - END_EPS)

\* A handler that touches neither the refs of the scheduler nor the player.
Quiet(name) ==
  /\ op' = name
  /\ cmds' = <<>>
  /\ threw' = FALSE
  /\ NoTick
  /\ UNCHANGED <<pollingRef, currentRef, timers, pairs, raced, played>>

\* After startLearning: the dataset is loaded, the player not built yet.
Init ==
  /\ playerRef = "none"
  /\ pollingRef = {}
  /\ currentRef = {}
  /\ timers = {}
  /\ segments \in Datasets
  /\ knownWords \in SUBSET WordsOf(segments)
  /\ loops = 2
  /\ autoAdvance = TRUE
  /\ words = <<>>
  /\ windowSec = DefaultWindowSec
  /\ unknownOnly = TRUE
  /\ activeId = NoId
  /\ store = [id \in DatasetIds |-> Absent]
  /\ op = "init"
  /\ cmds = <<>>
  /\ threw = FALSE
  /\ tickOf = {}
  /\ tickT = -1
  /\ pairs = 0
  /\ raced = FALSE
  /\ played = <<>>
  /\ below = FALSE
  /\ undo = <<>>

\* buildPlayer, run once by the effect on [landing, videoId]: the handle is
\* set at once, its methods exist only from onReady on.
BuildPlayer ==
  /\ playerRef = "none"
  /\ playerRef' = "unready"
  /\ Quiet("buildPlayer")
  /\ UNCHANGED <<loopState, appState>>

OnReady ==
  /\ playerRef = "unready"
  /\ playerRef' = "ready"
  /\ op' = "onReady"
  /\ cmds' = <<CmdRate>>
  /\ threw' = FALSE
  /\ NoTick
  /\ UNCHANGED <<pollingRef, currentRef, timers, pairs, raced, played, loopState, appState>>

handlePlaySelected ==
  /\ Apply("handlePlaySelected",
           IF Len(selectedWords) = 0
           THEN Outcome(currentRef, pollingRef, timers, <<>>, FALSE, FALSE)
           ELSE playSegmentAt(0, Render, currentRef, pollingRef, timers))
  /\ NoTick
  /\ UNCHANGED <<playerRef, loopState, appState>>

handleNext ==
  /\ Apply("handleNext",
           IF currentRef = {}
           THEN Outcome(currentRef, pollingRef, timers, <<>>, FALSE, FALSE)
           ELSE playSegmentAt((CHOOSE x \in currentRef : TRUE).idx + 1, Render,
                              currentRef, pollingRef, timers))
  /\ NoTick
  /\ UNCHANGED <<playerRef, loopState, appState>>

handlePrev ==
  /\ Apply("handlePrev",
           IF currentRef = {}
           THEN Outcome(currentRef, pollingRef, timers, <<>>, FALSE, FALSE)
           ELSE playSegmentAt(Max(0, (CHOOSE x \in currentRef : TRUE).idx - 1), Render,
                              currentRef, pollingRef, timers))
  /\ NoTick
  /\ UNCHANGED <<playerRef, loopState, appState>>

\* pool.indexOf(word): 0-based, -1 when absent
IndexOf(pool, word) ==
  LET hits == {i \in 1..Len(pool) : pool[i] = word}
  IN IF hits = {} THEN -1 ELSE (CHOOSE i \in hits : \A j \in hits : i <= j) - 1

\* The play button of the i-th row of the word list.
PlayWord(i) ==
  /\ Apply("playWord",
           LET at == IndexOf(selectedWords, segments[i].word)
           IN IF at >= 0
              THEN playSegmentAt(at, Render, currentRef, pollingRef, timers)
              ELSE Outcome(currentRef, pollingRef, timers, <<>>, FALSE, FALSE))
  /\ NoTick
  /\ UNCHANGED <<playerRef, loopState, appState>>

StopAll ==
  /\ Apply("stopAll", stopAll)
  /\ NoTick
  /\ UNCHANGED <<playerRef, loopState, appState>>

\* setKnownWords(prev => ({...prev, [w]: !prev[w]}))
toggleKnown(w) ==
  /\ knownWords' = IF w \in knownWords THEN knownWords \ {w} ELSE knownWords \cup {w}
  /\ Quiet("toggleKnown")
  /\ UNCHANGED <<playerRef, segments, loops, autoAdvance, appState>>

\* setLoops(Math.max(1, parseInt(value || "1")))
SetLoops(n) ==
  /\ n # loops
  /\ loops' = Max(1, n)
  /\ Quiet("setLoops")
  /\ UNCHANGED <<playerRef, segments, knownWords, autoAdvance, appState>>

SetAutoAdvance ==
  /\ autoAdvance' = ~autoAdvance
  /\ Quiet("setAutoAdvance")
  /\ UNCHANGED <<playerRef, segments, knownWords, loops, appState>>

\* An armed timer fires.
Tick(c, t) ==
  /\ Apply("tick", pollCallback(c, t))
  /\ tickOf' = {c}
  /\ tickT' = IF currentRef = {} THEN -1 ELSE ReadTime(t)
  /\ below' = BelowAfter(c, t)
  /\ undo' = <<>>
  /\ UNCHANGED <<playerRef, loopState, appState>>

Next ==
  \/ BuildPlayer
  \/ OnReady
  \/ handlePlaySelected
  \/ handleNext
  \/ handlePrev
  \/ \E i \in 1..Len(segments) : PlayWord(i)
  \/ StopAll
  \/ \E w \in WordsOf(segments) : toggleKnown(w)
  \/ \E n \in 1..MaxLoops : SetLoops(n)
  \/ SetAutoAdvance
  \/ \E c \in timers : \E t \in PollTimes(c) : Tick(c, t)

Spec == Init /\ [][Next]_vars

\* One run without user actions: the player is ready, auto-advance is on, the
\* user presses one play button and the timer does the rest.
InitRun ==
  /\ playerRef = "ready"
  /\ pollingRef = {}
  /\ currentRef = {}
  /\ timers = {}
  /\ segments \in Datasets
  /\ knownWords \in SUBSET WordsOf(segments)
  /\ loops \in 1..MaxLoops
  /\ autoAdvance = TRUE
  /\ words = <<>>
  /\ windowSec = DefaultWindowSec
  /\ unknownOnly = TRUE
  /\ activeId = NoId
  /\ store = [id \in DatasetIds |-> Absent]
  /\ op = "init"
  /\ cmds = <<>>
  /\ threw = FALSE
  /\ tickOf = {}
  /\ tickT = -1
  /\ pairs = 0
  /\ raced = FALSE
  /\ played = <<>>
  /\ below = FALSE
  /\ undo = <<>>

RunPlay(i) == op = "init" /\ PlayWord(i)

NextRun ==
  \/ \E i \in 1..Len(segments) : RunPlay(i)
  \/ \E c \in timers : \E t \in PollTimes(c) : Tick(c, t)

SpecRun == InitRun /\ [][NextRun]_vars

\* The same run with auto-advance on or off, on a player whose position
\* reaches the end of the segment after each seek: the timer fires every
\* 120 ms, and in the end on a position at or past seg.end.
InitRunAny ==
  /\ playerRef = "ready"
  /\ pollingRef = {}
  /\ currentRef = {}
  /\ timers = {}
  /\ segments \in Datasets
  /\ knownWords \in SUBSET WordsOf(segments)
  /\ loops \in 1..MaxLoops
  /\ autoAdvance \in BOOLEAN
  /\ words = <<>>
  /\ windowSec = DefaultWindowSec
  /\ unknownOnly = TRUE
  /\ activeId = NoId
  /\ store = [id \in DatasetIds |-> Absent]
  /\ op = "init"
  /\ cmds = <<>>
  /\ threw = FALSE
  /\ tickOf = {}
  /\ tickT = -1
  /\ pairs = 0
  /\ raced = FALSE
  /\ played = <<>>
  /\ below = FALSE
  /\ undo = <<>>

TickAtEnd == \E c \in timers : Tick(c, c.seg.end)

SpecRunFair == InitRunAny /\ [][NextRun]_vars /\ WF_vars(TickAtEnd)

----------------------------------------------------------------------------
\* The sequence variant (App.tsx): data.

\* EPS of makeSegments, 0.05 s; END_EPS of playSequenceFrom, 0.01 s.
\* JSON.stringify of a dataset, as far as the model goes: the window length
\* and one row [t, word, level] per marker, in order.
Stringify(ws, win) == <<win, [i \in 1..Len(ws) |-> <<ws[i].t, ws[i].word, ws[i].level>>]>>
\* JSON.parse of such a text: the marker list and the window length.
ParseWords(text) ==
  [i \in 1..Len(text[2]) |->
     [t |-> text[2][i][1], word |-> text[2][i][2], level |-> text[2][i][3]]]
ParseWindowSec(text) == text[1]

\* The stored text of a dataset that is not the one being learned.
OtherDataset == Stringify(<<[t |-> 700, word |-> "z", level |-> 0]>>, DefaultWindowSec)

\* The persist effect that writes to every stored dataset.
persistEffectAll(id, ws, win, st) ==
  [d \in DOMAIN st |-> IF st[d] = Absent THEN Absent ELSE Stringify(ws, win)]

\* useEffect(..., [activeId, words, windowSec]): load the active dataset,
\* set its words and windowSec, save it under its id.
persistEffect(id, ws, win, st) ==
  IF id = NoId THEN st
  ELSE IF st[id] = Absent THEN st
  ELSE [st EXCEPT ![id] = Stringify(ws, win)]

EPS == 5

Marker(t, w, l) == [t |-> t, word |-> w, level |-> l]

\* The insertion of a sort that puts a marker before those with the same t.
InsertByTBeforeTies(sorted, w) ==
  LET before == {i \in 1..Len(sorted) : sorted[i].t < w.t}
      k == Cardinality(before)
  IN SubSeq(sorted, 1, k) \o <<w>> \o SubSeq(sorted, k + 1, Len(sorted))

\* [...words].sort((a, b) => a.t - b.t): stable, ascending t
InsertByT(sorted, w) ==
  LET before == {i \in 1..Len(sorted) : sorted[i].t <= w.t}
      k == Cardinality(before)
  IN SubSeq(sorted, 1, k) \o <<w>> \o SubSeq(sorted, k + 1, Len(sorted))

RECURSIVE SortByT(_)
SortByT(ws) ==
  IF ws = <<>> THEN <<>>
  ELSE InsertByT(SortByT(SubSeq(ws, 1, Len(ws) - 1)), ws[Len(ws)])

\* makeSegments without Math.max(start, ...) around nextStart - EPS.
makeSegmentsNoClamp(ws, win) ==
  LET sorted == SortByT(ws)
  IN [i \in 1..Len(sorted) |->
        [start |-> sorted[i].t,
         end |-> IF i < Len(sorted)
                 THEN sorted[i + 1].t - EPS
                 ELSE sorted[i].t + Max(MinSegmentSec, win),
         word |-> sorted[i].word,
         level |-> sorted[i].level]]

\* makeSegments without Math.max(0.3, ...) around windowSec.
makeSegmentsNoFloor(ws, win) ==
  LET sorted == SortByT(ws)
  IN [i \in 1..Len(sorted) |->
        [start |-> sorted[i].t,
         end |-> IF i < Len(sorted)
                 THEN Max(sorted[i].t, sorted[i + 1].t - EPS)
                 ELSE sorted[i].t + win,
         word |-> sorted[i].word,
         level |-> sorted[i].level]]

\* makeSegments without the sort.
makeSegmentsUnsorted(ws, win) ==
  [i \in 1..Len(ws) |->
     [start |-> ws[i].t,
      end |-> IF i < Len(ws)
              THEN Max(ws[i].t, ws[i + 1].t - EPS)
              ELSE ws[i].t + Max(MinSegmentSec, win),
      word |-> ws[i].word,
      level |-> ws[i].level]]

\* if (!words.length) return []; otherwise one segment per sorted marker
makeSegments(ws, win) ==
  LET sorted == SortByT(ws)
  IN [i \in 1..Len(sorted) |->
        [start |-> sorted[i].t,
         end |-> IF i < Len(sorted)
                 THEN Max(sorted[i].t, sorted[i + 1].t - EPS)
                 ELSE sorted[i].t + Max(MinSegmentSec, win),
         word |-> sorted[i].word,
         level |-> sorted[i].level]]

\* useMemo(() => makeSegments(words, windowSec))
appSegments == makeSegments(words, windowSec)

\* visibleSegments that keeps the Known segments instead.
visibleSegmentsOfKnown(segs, only) ==
  IF only THEN SelectSeq(segs, LAMBDA sg : sg.level = 1) ELSE segs

\* unknownOnly ? segments.filter(s => s.level === 0) : segments
visibleSegmentsOf(segs, only) ==
  IF only THEN SelectSeq(segs, LAMBDA sg : sg.level = 0) ELSE segs

visibleSegments == visibleSegmentsOf(appSegments, unknownOnly)

\* knownCount that counts every marker.
knownCountAll == Len(words)

\* words.reduce((acc, w) => acc + (w.level ? 1 : 0), 0)
knownCount == Cardinality({i \in 1..Len(words) : words[i].level # 0})

\* The marker lists the model starts from, as parseUploadedCSV leaves them
\* (sorted by t): well separated markers, and markers closer than EPS with a
\* repeated timestamp.
MarkerTimes == { <<0, 500, 1200>>, <<0, 3, 3>> }
MarkerWords == <<"a", "b", "c">>

MarkerLists ==
  { [i \in 1..3 |-> Marker(ts[i], MarkerWords[i], lv[i])] :
      ts \in MarkerTimes, lv \in [1..3 -> {0, 1}] }

----------------------------------------------------------------------------
\* The sequence variant: playSequenceFrom and its poll callback.

\* playSequenceFrom without its clearInterval(pollingRef.current).
playSequenceFromNoClear(index, vis, cur, poll, tms) ==
  IF playerRef # "ready" \/ index < 0 \/ index >= Len(vis)
  THEN Outcome(cur, poll, tms, <<>>, FALSE, FALSE)
  ELSE LET c == [index |-> index, seg |-> vis[index + 1], vis |-> vis]
       IN Outcome({[idx |-> index]}, {c}, tms \cup {c},
                  <<CmdRate, CmdSeek(vis[index + 1].start), CmdPlay>>, FALSE, TRUE)

\* playSequenceFrom without the range test on index: visibleSegments[index]
\* is undefined and seg.start throws, after currentRef was set.
playSequenceFromUnchecked(index, vis, cur, poll, tms) ==
  IF playerRef = "none"
  THEN Outcome(cur, poll, tms, <<>>, FALSE, FALSE)
  ELSE IF index < 0 \/ index >= Len(vis)
  THEN Outcome({[idx |-> index]}, poll, tms,
               IF playerRef = "ready" THEN <<CmdRate>> ELSE <<>>, TRUE, FALSE)
  ELSE LET seg == vis[index + 1]
           c == [index |-> index, seg |-> seg, vis |-> vis]
           started == {[idx |-> index]}
       IN IF playerRef = "unready"
          THEN Outcome(started, poll, tms, <<>>, TRUE, FALSE)
          ELSE Outcome(started, {c}, (tms \ poll) \cup {c},
                       <<CmdRate, CmdSeek(seg.start), CmdPlay>>, FALSE, TRUE)

\* playSequenceFrom(index) of the render whose visibleSegments is vis.
playSequenceFrom(index, vis, cur, poll, tms) ==
  IF playerRef = "none" \/ index < 0 \/ index >= Len(vis)
  THEN Outcome(cur, poll, tms, <<>>, FALSE, FALSE)
  ELSE LET seg == vis[index + 1]
           c == [index |-> index, seg |-> seg, vis |-> vis]
           started == {[idx |-> index]}
       IN IF playerRef = "unready"
          THEN Outcome(started, poll, tms, <<>>, TRUE, FALSE)
          ELSE Outcome(started, {c}, (tms \ poll) \cup {c},
                       <<CmdRate, CmdSeek(seg.start), CmdPlay>>, FALSE, TRUE)

\* The statements of playSequenceFrom(index) on a ready player and a
\* position of the list, in source order, each with what holds after it:
\* whether the new segment is recorded in currentRef, the commands issued so
\* far, and the armed timers.
playSequenceFromTrace(index, vis, poll, tms) ==
  LET seg == vis[index + 1]
      c == [index |-> index, seg |-> seg, vis |-> vis]
      After(rec, cs, armed) == [recorded |-> rec, cmds |-> cs, tms |-> armed]
  IN << After(FALSE, <<CmdRate>>, tms),                                  \* setPlaybackRate(1)
        After(TRUE, <<CmdRate>>, tms),                                   \* currentRef.current = { idx }
        After(TRUE, <<CmdRate, CmdSeek(seg.start)>>, tms),               \* seekTo(seg.start, true)
        After(TRUE, <<CmdRate, CmdSeek(seg.start), CmdPlay>>, tms),      \* playVideo()
        After(TRUE, <<CmdRate, CmdSeek(seg.start), CmdPlay>>, tms \ poll), \* clearInterval
        After(TRUE, <<CmdRate, CmdSeek(seg.start), CmdPlay>>, (tms \ poll) \cup {c}) >>

PollTimesApp(c) ==
  {t \in {c.seg.end - END_EPS - 1, c.seg.end - END_EPS, c.seg.end} : t >= 0}

\* The callback with a completion test one hundredth too early.
sequenceCallbackEarly(c, t) ==
  IF currentRef = {}
  THEN Outcome(currentRef, pollingRef, timers, <<>>, FALSE, FALSE)
  ELSE IF AtOrPast(ReadTime(t), c.seg.end - END_EPS - 1)
  THEN playSequenceFrom(c.index + 1, c.vis, currentRef, {}, timers \ pollingRef)
  ELSE Outcome(currentRef, pollingRef, timers, <<>>, FALSE, FALSE)

sequenceCallback(c, t) ==
  IF currentRef = {}
  THEN Outcome(currentRef, pollingRef, timers, <<>>, FALSE, FALSE)
  ELSE IF ReadTime(t) = Throws
  THEN Outcome(currentRef, pollingRef, timers, <<>>, TRUE, FALSE)
  ELSE IF AtOrPast(ReadTime(t), c.seg.end - END_EPS)
  THEN playSequenceFrom(c.index + 1, c.vis, currentRef, {}, timers \ pollingRef)
  ELSE Outcome(currentRef, pollingRef, timers, <<>>, FALSE, FALSE)

----------------------------------------------------------------------------
\* The sequence variant: the steps.

\* After startLearning: topMode = "video", the player not built yet.
InitApp ==
  /\ playerRef = "none"
  /\ pollingRef = {}
  /\ currentRef = {}
  /\ timers = {}
  /\ segments = <<>>
  /\ knownWords = {}
  /\ loops = 1
  /\ autoAdvance = TRUE
  /\ words \in MarkerLists
  /\ windowSec = DefaultWindowSec
  /\ unknownOnly = TRUE
  /\ activeId = "d1"
  /\ store = [id \in DatasetIds |->
                IF id = "d1" THEN Stringify(words, windowSec) ELSE OtherDataset]
  /\ op = "init"
  /\ cmds = <<>>
  /\ threw = FALSE
  /\ tickOf = {}
  /\ tickT = -1
  /\ pairs = 0
  /\ raced = FALSE
  /\ played = <<>>
  /\ below = FALSE
  /\ undo = <<>>

\* The row button of visibleSegments[idx].
PlayRow(idx) ==
  /\ Apply("playSequenceFrom",
           playSequenceFrom(idx, visibleSegments, currentRef, pollingRef, timers))
  /\ NoTick
  /\ UNCHANGED <<playerRef, loopState, appState>>

\* The record of the toggles made in a row after toggleKnownByStart(start).
UndoAfter(start) ==
  Append(IF undo = <<>> THEN <<>> ELSE <<undo[Len(undo)]>>,
         [t |-> start, ws |-> words])

\* toggleKnownByStart that also ends the playback session.
toggleKnownByStartStops(start) ==
  /\ words' = [i \in 1..Len(words) |->
                 IF words[i].t = start
                 THEN [words[i] EXCEPT !.level = 1 - @]
                 ELSE words[i]]
  /\ op' = "toggleKnownByStart"
  /\ undo' = UndoAfter(start)
  /\ cmds' = <<>>
  /\ threw' = FALSE
  /\ NoTick
  /\ pollingRef' = {}
  /\ currentRef' = {}
  /\ timers' = {}
  /\ UNCHANGED <<pairs, raced, played, playerRef, loopState, windowSec, unknownOnly,
                 activeId, store>>

\* toggleKnownByStart that marks the marker Known and never Unknown again.
toggleKnownByStartMarks(start) ==
  /\ words' = [i \in 1..Len(words) |->
                 IF words[i].t = start
                 THEN [words[i] EXCEPT !.level = 1]
                 ELSE words[i]]
  /\ store' = persistEffect(activeId, words', windowSec, store)
  /\ undo' = UndoAfter(start)
  /\ Quiet("toggleKnownByStart")
  /\ UNCHANGED <<playerRef, loopState, windowSec, unknownOnly, activeId>>

\* setWords(prev => prev.map(w => w.t === start ? {...w, level: w.level ? 0 : 1} : w))
toggleKnownByStart(start) ==
  /\ words' = [i \in 1..Len(words) |->
                 IF words[i].t = start
                 THEN [words[i] EXCEPT !.level = 1 - @]
                 ELSE words[i]]
  /\ store' = persistEffect(activeId, words', windowSec, store)
  /\ undo' = UndoAfter(start)
  /\ Quiet("toggleKnownByStart")
  /\ UNCHANGED <<playerRef, loopState, windowSec, unknownOnly, activeId>>

SetUnknownOnly ==
  /\ unknownOnly' = ~unknownOnly
  /\ Quiet("setUnknownOnly")
  /\ UNCHANGED <<playerRef, loopState, words, windowSec, activeId, store>>

TickApp(c, t) ==
  /\ Apply("tick", sequenceCallback(c, t))
  /\ tickOf' = {c}
  /\ tickT' = IF currentRef = {} THEN -1 ELSE ReadTime(t)
  /\ below' = BelowAfter(c, t)
  /\ undo' = <<>>
  /\ UNCHANGED <<playerRef, loopState, appState>>

NextApp ==
  \/ BuildPlayer
  \/ OnReady
  \/ \E idx \in 0..(Len(visibleSegments) - 1) : PlayRow(idx)
  \/ \E i \in 1..Len(visibleSegments) : toggleKnownByStart(visibleSegments[i].start)
  \/ SetUnknownOnly
  \/ \E c \in timers : \E t \in PollTimesApp(c) : TickApp(c, t)

SpecApp == InitApp /\ [][NextApp]_vars

----------------------------------------------------------------------------
\* The sequence variant with a player whose getCurrentTime can fail.

\* An armed timer fires and getCurrentTime gives no position.
TickAppFault(c, r) ==
  /\ r \in FaultReads
  /\ TickApp(c, r)

NextAppFault ==
  \/ NextApp
  \/ \E c \in timers : \E r \in FaultReads : TickAppFault(c, r)

SpecAppFault == InitApp /\ [][NextAppFault]_vars

----------------------------------------------------------------------------
\* The sequence variant with the dataset list of a second window.

\* removeDataset(id) from the select screen. The delete button is on the
\* select screen only, and startLearning leaves that screen for good, so the
\* window that learns never runs it; a second window of the app, still on its
\* select screen (its own activeId is null, the branch activeId === id is not
\* taken), does: deleteDataset(id) removes the entry from the localStorage
\* both windows share, and nothing of the learning window is touched.
removeDataset(id) ==
  /\ store[id] # Absent
  /\ store' = [store EXCEPT ![id] = Absent]
  /\ Quiet("removeDataset")
  /\ UNCHANGED <<playerRef, loopState, words, windowSec, unknownOnly, activeId>>

NextAppShared ==
  \/ NextApp
  \/ \E id \in DatasetIds : removeDataset(id)

SpecAppShared == InitApp /\ [][NextAppShared]_vars

----------------------------------------------------------------------------
\* The sequence variant, one play of the user on a ready player, and then
\* a player that never reports the end of the segment.

InitAppReady ==
  /\ playerRef = "ready"
  /\ pollingRef = {}
  /\ currentRef = {}
  /\ timers = {}
  /\ segments = <<>>
  /\ knownWords = {}
  /\ loops = 1
  /\ autoAdvance = TRUE
  /\ words \in MarkerLists
  /\ windowSec = DefaultWindowSec
  /\ unknownOnly \in BOOLEAN
  /\ activeId = "d1"
  /\ store = [id \in DatasetIds |->
                IF id = "d1" THEN Stringify(words, windowSec) ELSE OtherDataset]
  /\ op = "init"
  /\ cmds = <<>>
  /\ threw = FALSE
  /\ tickOf = {}
  /\ tickT = -1
  /\ pairs = 0
  /\ raced = FALSE
  /\ played = <<>>
  /\ below = FALSE
  /\ undo = <<>>

\* The one play of the user.
FirstPlayRow(idx) == op = "init" /\ PlayRow(idx)

\* What the poll reads from such a player: a position short of the end
\* test, NaN, or an exception.
StuckReads(c) ==
  {NaN, Throws} \cup {t \in PollTimesApp(c) : t < c.seg.end - END_EPS}

\* The armed timer fires, as setInterval makes it do every 120 ms.
TickAppStuck ==
  \E c \in timers : \E r \in StuckReads(c) : TickApp(c, r)

NextAppStuck ==
  \/ \E idx \in 0..(Len(visibleSegments) - 1) : FirstPlayRow(idx)
  \/ TickAppStuck

SpecAppStuck == InitAppReady /\ [][NextAppStuck]_vars /\ WF_vars(TickAppStuck)

----------------------------------------------------------------------------
\* makeSegments on its own: any marker list, any window length.

\* The marker times: two closer than EPS, two well apart.
BuildTimes == {0, 3, 500, 1200}
\* The window lengths: below MinSegmentSec, the default, and 2 s.
WindowSecs == {10, DefaultWindowSec, 200}
\* The label of the k-th row, the third one empty.
BuildLabels == <<"a", "b", "", "d">>

\* The marker lists of up to MaxMarkers rows, in any order, times repeated.
BuildInputs ==
  UNION { { [k \in 1..n |-> Marker(ts[k], BuildLabels[k], lv[k])] :
              ts \in [1..n -> BuildTimes], lv \in [1..n -> {0, 1}] } :
          n \in 0..MaxMarkers }

\* A call of makeSegments that sorts the array it was given.
makeSegmentsCallInPlace(ws, win) ==
  [result |-> makeSegments(ws, win), words |-> SortByT(ws)]

\* A call of makeSegments: what it returns, and the array it was given as
\* the call leaves it (the sort works on the copy [...words]).
makeSegmentsCall(ws, win) ==
  [result |-> makeSegments(ws, win), words |-> ws]

InitBuild ==
  /\ playerRef = "none"
  /\ pollingRef = {}
  /\ currentRef = {}
  /\ timers = {}
  /\ segments = <<>>
  /\ knownWords = {}
  /\ loops = 1
  /\ autoAdvance = TRUE
  /\ words \in BuildInputs
  /\ windowSec \in WindowSecs
  /\ unknownOnly = TRUE
  /\ activeId = NoId
  /\ store = [id \in DatasetIds |-> Absent]
  /\ op = "init"
  /\ cmds = <<>>
  /\ threw = FALSE
  /\ tickOf = {}
  /\ tickT = -1
  /\ pairs = 0
  /\ raced = FALSE
  /\ played = <<>>
  /\ below = FALSE
  /\ undo = <<>>

\* The first evaluation of useMemo(() => makeSegments(words, windowSec)).
Build ==
  /\ op = "init"
  /\ LET r == makeSegmentsCall(words, windowSec)
     IN segments' = r.result /\ words' = r.words
  /\ op' = "makeSegments"
  /\ UNCHANGED <<refs, knownWords, loops, autoAdvance, windowSec, unknownOnly,
                 activeId, store,
                 cmds, threw, tickOf, tickT, pairs, raced, played, below, undo>>

\* An evaluation of the memo again, from the same words and windowSec.
Rebuild ==
  /\ op = "makeSegments"
  /\ LET r == makeSegmentsCall(words, windowSec)
     IN segments' = r.result /\ words' = r.words
  /\ op' = "rebuild"
  /\ UNCHANGED <<refs, knownWords, loops, autoAdvance, windowSec, unknownOnly,
                 activeId, store,
                 cmds, threw, tickOf, tickT, pairs, raced, played, below, undo>>

NextBuild == Build \/ Rebuild

SpecBuild == InitBuild /\ [][NextBuild]_vars

----------------------------------------------------------------------------
\* The properties.

Current == CHOOSE x \in currentRef : TRUE
Polling == CHOOSE c \in pollingRef : TRUE

\* The step changed nothing of the playback session and commanded nothing.
SessionUntouched ==
  /\ cmds' = <<>>
  /\ UNCHANGED <<pollingRef, currentRef, timers>>

UserPlays == {"handlePlaySelected", "handleNext", "handlePrev", "playWord"}

\* Every seek among the commands goes to position t.
SeeksOnly(cs, t) == \A i \in 1..Len(cs) : cs[i].cmd = "seek" => cs[i].arg = t

\* C2. Loop count exactness: a session started by play() with loopsPerSegment
\* = N gets one seek+play pair from play() and one more from each poll that
\* reads a position at or past segment.end, until N pairs have been issued;
\* only then, with exactly N pairs issued, does a poll end the session
\* (advance or pause).  Until then no pause and no seek elsewhere is issued.
C2_LoopCountExactness ==
  /\ [][(op' \in UserPlays /\ HasCmd(cmds', "seek"))
          => (pollingRef' # {} /\ pairs' = 1
              /\ (CHOOSE c \in pollingRef' : TRUE).loops = loops)]_vars
  /\ [][(op' = "tick" /\ pollingRef # {})
          => IF pollingRef' # pollingRef
             THEN pairs = Polling.loops /\ tickT' >= Polling.seg.end
             ELSE /\ ~HasCmd(cmds', "pause")
                  /\ SeeksOnly(cmds', Polling.seg.start)
                  /\ pairs' <= Polling.loops
                  /\ (tickT' >= Polling.seg.end
                        => pairs' = pairs + 1
                           /\ cmds' = <<CmdSeek(Polling.seg.start), CmdPlay>>)]_vars

\* A session with N = 2 has ended on a poll, after exactly two pairs.
C2_Witness ==
  /\ op = "tick" /\ pollingRef = {} /\ tickOf # {}
  /\ (CHOOSE c \in tickOf : TRUE).loops = 2
  /\ currentRef # {} /\ Current.loop = 2
  /\ pairs = 2

\* The last step was a poll that used up the budget of its segment: it
\* cleared the timer, and a session it then started is another one.
Exhausted == op = "tick" /\ tickOf # {} /\ pollingRef # tickOf
Completed == CHOOSE c \in tickOf : TRUE

\* C3. The advance chooses from the filtered list as it is when the budget is
\* used up: the segment it starts is in visibleSegments as of now, and when
\* visibleSegments now holds a segment that starts later than the completed
\* one, a segment is started.
C3_NextFromLiveList ==
  Exhausted =>
    /\ pollingRef # {} =>
         \E i \in 1..Len(visibleSegments) : visibleSegments[i] = Polling.seg
    /\ (\E i \in 1..Len(visibleSegments) :
          visibleSegments[i].start > Completed.seg.start) => pollingRef # {}

\* C4. At most one poll timer is armed, and it is the one pollingRef holds;
\* whenever a step has sought a segment (a play() that started a session, an
\* advance, a re-seek) exactly one timer is armed afterwards, the timer of
\* the session before being cleared.
C4_OneTimer ==
  /\ Cardinality(timers) <= 1
  /\ timers = pollingRef
  /\ HasCmd(cmds, "seek") => Cardinality(timers) = 1

\* play() has just replaced a session whose timer was still armed.
C4_Witness ==
  raced /\ op \in UserPlays /\ HasCmd(cmds, "play") /\ Cardinality(timers) = 1

\* The Unknown segments in list order, and their starts from the one that
\* starts at t on.
FilteredSegments == SelectSeq(segments, LAMBDA sg : sg.word \notin knownWords)
StartsFrom(t) ==
  LET at == {i \in 1..Len(FilteredSegments) : FilteredSegments[i].start = t}
  IN IF at = {} THEN <<>>
     ELSE LET k == CHOOSE i \in at : TRUE
          IN [j \in 1..(Len(FilteredSegments) - k + 1) |-> FilteredSegments[k + j - 1].start]
IsPrefix(p, q) == Len(p) <= Len(q) /\ SubSeq(q, 1, Len(p)) = p

\* C5. In a run without user actions, with auto-advance on, the segments
\* started are the Unknown segments in ascending start order from the first
\* one played on, each once; every seek goes to an Unknown segment; each gets
\* its full budget; when the run has ended all of them have been played and
\* no timer is armed.
C5_PlaysFilteredInOrder ==
  /\ played # <<>> => IsPrefix(played, StartsFrom(played[1]))
  /\ \A i \in 1..Len(cmds) :
       cmds[i].cmd = "seek" =>
         \E j \in 1..Len(FilteredSegments) : FilteredSegments[j].start = cmds[i].arg
  /\ pollingRef # {} => Current.loop < Polling.loops
  /\ (op = "tick" /\ pollingRef = {}) =>
       /\ played = StartsFrom(played[1])
       /\ Current.loop = loops
       /\ timers = {}

\* C6. Sequence exhaustion stops the player: when a poll uses up the budget
\* of the last filtered segment with auto-advance on, the timer is cancelled
\* and the player is commanded to pause.
C6_ExhaustionPauses ==
  (Exhausted /\ Completed.auto /\ autoAdvance /\ pollingRef = {})
    => (timers = {} /\ HasCmd(cmds, "pause"))

\* C7. With auto-advance disabled, a poll that uses up the budget of a
\* segment cancels the timer and pauses the player, and issues no seek or
\* play; with no timer armed nothing is left to issue one.
C7_NoAdvanceWhenDisabled ==
  /\ (Exhausted /\ ~autoAdvance) =>
       /\ pollingRef = {}
       /\ HasCmd(cmds, "pause")
       /\ ~HasCmd(cmds, "seek") /\ ~HasCmd(cmds, "play")
  /\ pollingRef = {} => timers = {}

\* C8. stop() is total and idempotent: it never throws, it leaves no armed
\* timer and no current session, also with the player handle missing, and a
\* second stop() right after changes nothing.
C8_StopTotalIdempotent ==
  [][op' = "stopAll"
       => /\ ~threw'
          /\ pollingRef' = {} /\ timers' = {} /\ currentRef' = {}
          /\ op = "stopAll" => UNCHANGED vars]_vars

\* stop() has ended a session that had been started.
C8_Witness ==
  op = "stopAll" /\ pairs >= 1 /\ cmds = <<CmdPause>> /\ currentRef = {} /\ timers = {}

\* The callbacks playSegmentAt can have armed for the loaded dataset.
Closures ==
  { [index |-> i, seg |-> segments[k], sel |-> selectedWordsOf(segments, kn),
     loops |-> n, auto |-> a] :
      i \in 0..(Len(segments) - 1), k \in 1..Len(segments),
      kn \in SUBSET WordsOf(segments), n \in 1..MaxLoops, a \in BOOLEAN }

\* C9. After stop() there is no current session and no armed timer until
\* a play() of the user; a callback that runs without a current session,
\* the one of a cancelled timer included, issues no command, counts no repeat
\* and advances nowhere.
C9_NoTickAfterStop ==
  /\ [](currentRef = {} => (timers = {} /\ pollingRef = {}))
  /\ [](currentRef = {} =>
         \A c \in Closures : \A t \in PollTimes(c) :
           pollCallback(c, t) = Outcome({}, pollingRef, timers, <<>>, FALSE, FALSE))
  /\ [][op' = "stopAll" => currentRef' = {}]_vars
  /\ [][(currentRef = {} /\ currentRef' # {}) => op' \in UserPlays]_vars
  /\ [][(currentRef = {} /\ op' = "tick") => (SessionUntouched /\ pairs' = pairs)]_vars

\* A session was stopped, and the user has done something else since.
C9_Witness ==
  currentRef = {} /\ pairs >= 1 /\ op = "toggleKnown" /\ timers = {}

\* C10. Toggling a marker's level does not touch the playback session: the
\* armed timer with the segment bounds its callback tests, the current
\* position and the repeat counter are unchanged and no command is issued.
C10_ToggleLeavesSession ==
  [][op' \in {"toggleKnownByStart", "toggleKnown"}
       => (SessionUntouched /\ UNCHANGED <<playerRef, pairs>>)]_vars

\* The marker of the segment being played was made Known while it plays.
C10_Witness ==
  /\ op = "toggleKnownByStart" /\ pollingRef # {} /\ timers = pollingRef
  /\ Polling.seg.level = 0
  /\ \E i \in 1..Len(words) : words[i].t = Polling.seg.start /\ words[i].level = 1

\* The first Unknown segment that starts after t: {} or {that segment}.
NextAfter(t) ==
  LET after == {i \in 1..Len(FilteredSegments) : FilteredSegments[i].start > t}
  IN IF after = {} THEN {}
     ELSE {FilteredSegments[CHOOSE i \in after : \A j \in after : i <= j]}

\* C11. The current segment is tracked by identity: a manual Next in a
\* session during which a toggle has changed the filtered list starts the
\* first Unknown segment after the marker the session is playing, when there
\* is one; none is skipped and none replayed.
C11_CurrentByIdentity ==
  [][(/\ op' = "handleNext" /\ pollingRef # {}
       /\ Polling.sel # selectedWords
       /\ NextAfter(Polling.seg.start) # {})
       => /\ pollingRef' # {}
          /\ {(CHOOSE c \in pollingRef' : TRUE).seg} = NextAfter(Polling.seg.start)]_vars

\* C12. The segment an advance starts has a start strictly greater than the
\* start of the segment just completed, markers sharing a timestamp
\* included; when the filtered list the session plays from has no segment
\* with a strictly greater start, the advance starts nothing.
C12_AdvanceStrictlyLater ==
  Exhausted =>
    /\ pollingRef # {} => Polling.seg.start > Completed.seg.start
    /\ (\A i \in 1..Len(Completed.vis) :
          ~(Completed.vis[i].start > Completed.seg.start)) => pollingRef = {}

\* The positions around a list of n entries that are not positions of it.
Unresolved(n) == {i \in -1..(n + 1) : i < 0 \/ i >= n}

\* C13. play() with a position that is not one of the current filtered list
\* (negative, past the end, empty list) is a silent no-op: it does not throw,
\* issues no command and returns the timer, the current position and the
\* repeat counter as they were, in whatever state it is called.
C13_PlayUnresolvedNoOp ==
  /\ \A i \in Unresolved(Len(visibleSegments)) :
       playSequenceFrom(i, visibleSegments, currentRef, pollingRef, timers)
         = Outcome(currentRef, pollingRef, timers, <<>>, FALSE, FALSE)
  /\ \A i \in Unresolved(Len(selectedWords)) :
       playSegmentAt(i, Render, currentRef, pollingRef, timers)
         = Outcome(currentRef, pollingRef, timers, <<>>, FALSE, FALSE)

\* The advance after the last segment of the list has called play() with
\* the position past the end, and nothing was started or commanded.
C13_Witness ==
  /\ op = "tick" /\ tickOf # {} /\ currentRef # {}
  /\ Completed.index + 1 >= Len(Completed.vis)
  /\ Completed.vis = visibleSegments
  /\ pollingRef = {} /\ timers = {} /\ cmds = <<>> /\ ~threw

\* makeSegments has run on words and windowSec, and segments is its result.
Built == op \in {"makeSegments", "rebuild"}

\* C14. Non-overlap: for every marker list (any order, times repeated) and
\* every window length, every segment built has start <= end, and every
\* segment ends no later than the next one starts.
C14_NonOverlap ==
  Built =>
    /\ \A i \in 1..Len(segments) : segments[i].start <= segments[i].end
    /\ \A i \in 1..(Len(segments) - 1) : segments[i].end <= segments[i + 1].start

\* Built from an unsorted list with two markers closer than EPS and two
\* markers at the same time.
C14_Witness ==
  /\ Built /\ Len(segments) = 3
  /\ words[1].t = 3 /\ words[2].t = 0 /\ words[3].t = 3
  /\ segments[1].end = segments[1].start
  /\ segments[2].end = segments[3].start

\* The ways to put n rows in an order.
Orders(n) == {f \in [1..n -> 1..n] : \A i, j \in 1..n : f[i] = f[j] => i = j}

\* C15. makeSegments returns one segment per marker, in ascending order of t,
\* each with the start, the label and the level of its marker, and for every
\* segment but the last end = max(start, next marker's t - EPS); markers at
\* 0, 5 and 12 s with windowSec = 2 s give (0, 4.95), (5, 11.95), (12, 14).
C15_OneSegmentPerMarker ==
  Built =>
    /\ Len(segments) = Len(words)
    /\ \E f \in Orders(Len(words)) :
         \A i \in 1..Len(words) :
           /\ segments[i].start = words[f[i]].t
           /\ segments[i].word = words[f[i]].word
           /\ segments[i].level = words[f[i]].level
    /\ \A i \in 1..(Len(segments) - 1) :
         /\ segments[i].start <= segments[i + 1].start
         /\ segments[i].end = Max(segments[i].start, segments[i + 1].start - EPS)
    /\ (Len(words) = 3 /\ {words[k].t : k \in 1..3} = {0, 500, 1200} /\ windowSec = 200)
         => [i \in 1..3 |-> <<segments[i].start, segments[i].end>>]
              = << <<0, 495>>, <<500, 1195>>, <<1200, 1400>> >>

\* Built from the markers 12, 0, 5 s, in that order, with windowSec = 2 s.
C15_Witness ==
  /\ Built /\ Len(words) = 3 /\ windowSec = 200
  /\ words[1].t = 1200 /\ words[2].t = 0 /\ words[3].t = 500
  /\ segments[1].word = "b" /\ segments[3].end = 1400

\* C16. Last-segment length: for every non-empty marker list the last
\* segment has end - start = max(MinSegmentSec, windowSec), also when
\* windowSec is below MinSegmentSec and when there is a single marker.
C16_LastSegmentLength ==
  (Built /\ words # <<>>) =>
    /\ segments # <<>>
    /\ segments[Len(segments)].end - segments[Len(segments)].start
         = Max(MinSegmentSec, windowSec)

\* Built from a single marker with windowSec = 0.1 s: a segment of 0.3 s.
C16_Witness ==
  /\ Built /\ Len(words) = 1 /\ windowSec < MinSegmentSec
  /\ segments[1].end - segments[1].start = MinSegmentSec

OrigPos(sg) == CHOOSE k \in 1..Len(words) : words[k].word = sg.word

\* Segments of markers with the same t keep the order of their rows.
TiesKeepOrder ==
  \A i, j \in 1..Len(segments) :
    (i < j /\ segments[i].start = segments[j].start)
      => OrigPos(segments[i]) < OrigPos(segments[j])

\* C18, as stated. makeSegments sorts stably, and every marker whose t is
\* also the t of another marker, unless it is the last of the list, yields
\* a segment with end = start.
C18_EveryDuplicateZeroLength ==
  Built =>
    /\ TiesKeepOrder
    /\ \A i \in 1..(Len(segments) - 1) :
         (\E j \in 1..Len(segments) : j # i /\ segments[j].start = segments[i].start)
           => segments[i].end = segments[i].start

\* C18, amended. makeSegments accepts unsorted input and sorts stably, and
\* every marker that is followed in the sorted order by a marker with the
\* same t yields a segment with end = start; the last marker of a run of
\* equal times ends where any other segment would: at
\* max(start, next t - EPS), or after the window when it is the last of all.
C18_StableSortZeroLengthTies ==
  Built =>
    /\ TiesKeepOrder
    /\ \A i \in 1..(Len(segments) - 1) :
         /\ segments[i].start <= segments[i + 1].start
         /\ segments[i + 1].start = segments[i].start
              => segments[i].end = segments[i].start
         /\ segments[i + 1].start > segments[i].start
              => segments[i].end = Max(segments[i].start, segments[i + 1].start - EPS)
    /\ segments # <<>> =>
         segments[Len(segments)].end
           = segments[Len(segments)].start + Max(MinSegmentSec, windowSec)

\* Built from the rows 5 s, 0.03 s, 0.03 s: the two markers at 0.03 s come
\* first, in row order, the first of zero length, the second ending at 4.95.
C18_Witness ==
  /\ Built /\ Len(words) = 3
  /\ words[1].t = 500 /\ words[2].t = 3 /\ words[3].t = 3
  /\ segments[1].word = "b" /\ segments[2].word = ""
  /\ segments[1].end = 3 /\ segments[2].end = 495

\* The strictly increasing maps from the positions of a list of m entries
\* to those of a list of n entries.
Embeddings(m, n) ==
  {f \in [1..m -> 1..n] : \A i, j \in 1..m : i < j => f[i] < f[j]}

\* C19. With the Unknown-only filter on, visibleSegments holds exactly the
\* segments whose level is Unknown, in the order of the full list, none
\* twice and none dropped; with the filter off it is the full list.
C19_FilteredListExact ==
  IF unknownOnly
  THEN \E f \in Embeddings(Len(visibleSegments), Len(appSegments)) :
         /\ \A i \in 1..Len(visibleSegments) : visibleSegments[i] = appSegments[f[i]]
         /\ {f[i] : i \in 1..Len(visibleSegments)}
              = {k \in 1..Len(appSegments) : appSegments[k].level = 0}
  ELSE visibleSegments = appSegments

\* The filter is on over a list with a Known segment between two Unknown ones.
C19_Witness ==
  /\ unknownOnly /\ Len(appSegments) = 3 /\ Len(visibleSegments) = 2
  /\ appSegments[1].level = 0 /\ appSegments[2].level = 1 /\ appSegments[3].level = 0
  /\ visibleSegments[2] = appSegments[3]

\* C20. A toggle flips the level of exactly one marker: every other marker,
\* one with the same timestamp included, keeps its level, and no marker's t
\* or label changes, nor the number or the order of the markers.
C20_ToggleFlipsOne ==
  [][op' = "toggleKnownByStart"
       => /\ Len(words') = Len(words)
          /\ \A k \in 1..Len(words) :
               words'[k].t = words[k].t /\ words'[k].word = words[k].word
          /\ Cardinality({k \in 1..Len(words) : words'[k].level # words[k].level}) = 1]_vars

\* C21. After every level toggle on the active dataset the marker list the
\* store holds for that dataset is the in-memory marker list (same t, label
\* and level for every marker, in order), and the store entries of the other
\* datasets are as they were.
C21_TogglePersists ==
  [][op' = "toggleKnownByStart"
       => /\ activeId' # NoId /\ store'[activeId'] # Absent
          /\ ParseWords(store'[activeId']) = words'
          /\ \A d \in DatasetIds \ {activeId'} : store'[d] = store[d]]_vars

\* A toggle made a marker Known, and the store holds the new list beside
\* the other dataset.
C21_Witness ==
  /\ op = "toggleKnownByStart" /\ activeId = "d1"
  /\ \E i \in 1..Len(words) : words[i].level = 1
  /\ ParseWords(store["d1"]) = words
  /\ store["d2"] = OtherDataset

\* C22. A poll tick on which getCurrentTime throws or gives a non-finite
\* value (NaN, +Infinity) is skipped: the repeat counter is not incremented,
\* nothing is advanced, no player command is issued, and the session stays
\* on the same segment with its timer armed.
C22_FaultyReadSkipped ==
  [][(op' = "tick" /\ tickT' \in FaultReads)
       => (SessionUntouched /\ pairs' = pairs /\ played' = played)]_vars

\* C23. No scheduler step throws out to its caller: play(), stop() and every
\* poll tick end without an exception, whatever the state of the player.
C23_NoStepThrows == ~threw

\* C24. Bounded failure: a session whose player never reports the end of
\* the segment (a position short of it, NaN or an exception on every tick)
\* does not poll forever: its timer is cancelled in the end.
C24_BoundedFailure == (pollingRef # {}) ~> (timers = {})

\* C25. With the timer firing and a player that reaches the end of the
\* segment after each seek, and no further user action, every session
\* started by a play() ends with no timer armed, and stays so, with
\* auto-advance on or off and any repeat budget.
C25_SessionEnds == (pollingRef # {}) ~> [](timers = {} /\ pollingRef = {})

\* A run with a budget of 2 and auto-advance on has played three segments
\* and ended.
C25_Witness ==
  /\ op = "tick" /\ timers = {} /\ pollingRef = {}
  /\ autoAdvance /\ loops = 2 /\ Len(played) = 3 /\ pairs = 2

\* C26. play() cancels the timer of the session before it, before it records
\* the new segment as current and before it issues a seek or a play for it:
\* after no statement of a play() is the new segment recorded or commanded
\* while the old timer is still armed.
C26_CancelBeforeCommand ==
  playerRef = "ready" =>
    \A i \in 0..(Len(visibleSegments) - 1) :
      LET trace == playSequenceFromTrace(i, visibleSegments, pollingRef, timers)
      IN \A k \in 1..Len(trace) :
           (trace[k].recorded \/ HasCmd(trace[k].cmds, "seek") \/ HasCmd(trace[k].cmds, "play"))
             => trace[k].tms \cap pollingRef = {}

Ticked == (CHOOSE c \in tickOf : TRUE).seg

\* C28. A poll tick that reads a position t < segment.end - END_EPS changes
\* nothing: the repeat counter, the current segment and the armed timer are
\* as before and no player command is issued.
C28_TickBelowEndNoOp ==
  [][(op' = "tick" /\ tickOf' # {} /\ tickT' >= 0
        /\ tickT' < (CHOOSE c \in tickOf' : TRUE).seg.end - END_EPS)
       => (SessionUntouched /\ pairs' = pairs /\ played' = played /\ ~threw')]_vars

\* The timer of the running session has fired on a position short of the
\* end test.
C28_Witness ==
  /\ op = "tick" /\ tickOf # {} /\ tickOf = pollingRef /\ timers = pollingRef
  /\ tickT >= 0 /\ tickT < Ticked.end - END_EPS
  /\ cmds = <<>>

\* The tick was counted as a completion: the repeat counter went up, or the
\* timer was cleared for an advance or for the end of the run.
Counted == currentRef' # currentRef \/ pollingRef' # pollingRef

\* C29. Completion uses the tolerance window: a poll tick that reads a
\* position t >= segment.end - END_EPS, a position slightly below
\* segment.end included, counts as one completion; so a segment of zero
\* length completes on the first tick that reads a position at its start.
C29_ToleranceWindow ==
  [][(op' = "tick" /\ tickOf' # {} /\ currentRef # {} /\ tickT' \notin FaultReads)
       => LET seg == (CHOOSE c \in tickOf' : TRUE).seg
          IN /\ tickT' >= seg.end - END_EPS => Counted
             /\ (seg.end = seg.start /\ tickT' >= seg.start) => Counted]_vars

\* C30. Every completion is counted once per playthrough: between two
\* consecutive increments of the repeat counter of a segment a poll has read
\* a position inside the segment and short of segment.end - END_EPS, so a
\* position left over from before the re-seek is not counted a second time.
C30_CountedOncePerPlaythrough ==
  [][(op' = "tick" /\ tickOf' # {} /\ Counted
        /\ \E r \in currentRef : r.loop >= 1) => below]_vars

\* The handlers that call playSegmentAt.
PlayHandlers == {"handlePlaySelected", "handleNext", "handlePrev", "playWord"}

\* C31. While a poll timer is armed the repeat counter of the session is at
\* least 0 and below the loops captured by the timer; a step that changes the
\* current position is stopAll clearing it, a tick adding one to the counter
\* of the same position, or a call of playSegmentAt setting it to 0 (from a
\* play handler, or from the tick that used the budget up and advances).
C31_CounterInBudget ==
  /\ [](pollingRef # {} =>
          \A r \in currentRef : \A c \in pollingRef : r.loop >= 0 /\ r.loop < c.loops)
  /\ [][currentRef' # currentRef =>
          \/ currentRef' = {} /\ op' = "stopAll"
          \/ /\ op' = "tick"
             /\ \E r \in currentRef : currentRef' = {[r EXCEPT !.loop = @ + 1]}
          \/ /\ \A r \in currentRef' : r.loop = 0
             /\ \/ op' \in PlayHandlers
                \/ /\ op' = "tick"
                   /\ \E r \in currentRef : \E c \in tickOf' :
                        c.auto /\ r.loop + 1 = c.loops]_vars

\* A tick has counted one completion of a session that stays armed.
C31_Witness ==
  /\ op = "tick" /\ pollingRef # {} /\ tickOf = pollingRef
  /\ \E r \in currentRef : r.loop = 1
  /\ HasCmd(cmds, "seek")

\* C32. Whenever a poll timer is armed a current position is recorded, and
\* the segment at that position of the filtered list is the segment whose
\* end the armed timer tests (the same marker: same start, same word).
C32_CurrentIsTimedSegment ==
  pollingRef # {} =>
    /\ currentRef # {}
    /\ \A r \in currentRef :
         /\ r.idx < Len(visibleSegments)
         /\ visibleSegments[r.idx + 1].start = Polling.seg.start
         /\ visibleSegments[r.idx + 1].word = Polling.seg.word

\* The dataset being learned has been deleted from the store.
ActiveDeleted == activeId # NoId /\ store[activeId] = Absent

\* C33. Deleting the active dataset while a session is playing ends the
\* session: after removeDataset no poll timer is armed, and no later tick
\* issues a player command or moves the current position.
C33_DeleteEndsSession ==
  /\ [][(op' = "removeDataset" /\ ActiveDeleted') => (pollingRef' = {} /\ timers' = {})]_vars
  /\ [][(op' = "tick" /\ ActiveDeleted) => (cmds' = <<>> /\ currentRef' = currentRef)]_vars

\* No two markers of the list share a timestamp.
UniqueTimes(ws) == \A i, j \in 1..Len(ws) : ws[i].t = ws[j].t => i = j

\* The last two steps were level toggles of the same marker.
ToggledTwice ==
  /\ op = "toggleKnownByStart" /\ Len(undo) = 2
  /\ undo[1].t = undo[2].t

\* C34. Toggling the same marker twice, with unique timestamps, restores the
\* marker list, the segment list and the filtered list to what they were
\* before the first toggle.
C34_ToggleTwiceRestores ==
  (ToggledTwice /\ UniqueTimes(words)) =>
     /\ words = undo[1].ws
     /\ appSegments = makeSegments(undo[1].ws, windowSec)
     /\ visibleSegments = visibleSegmentsOf(makeSegments(undo[1].ws, windowSec), unknownOnly)

\* With all rows shown, a marker with a timestamp of its own was made Known
\* and Unknown again.
C34_Witness ==
  /\ ToggledTwice /\ UniqueTimes(words) /\ ~unknownOnly
  /\ \E i \in 1..Len(words) :
       /\ words[i].t = undo[2].t
       /\ undo[1].ws[i].level = 0 /\ undo[2].ws[i].level = 1 /\ words[i].level = 0

\* C35. The derived views agree with the markers: segments has one entry
\* per marker, in the order of the markers, with the marker's timestamp,
\* label and current level; and under the Unknown-only filter
\* visibleSegments.length + knownCount = segments.length.
C35_ViewsAgree ==
  /\ Len(appSegments) = Len(words)
  /\ \A i \in 1..Len(words) :
       /\ appSegments[i].start = words[i].t
       /\ appSegments[i].word = words[i].word
       /\ appSegments[i].level = words[i].level
  /\ unknownOnly => Len(visibleSegments) + knownCount = Len(appSegments)

\* Under the filter, after a toggle, some markers are Known and some shown.
C35_Witness ==
  /\ op = "toggleKnownByStart" /\ unknownOnly
  /\ knownCount = 2 /\ Len(visibleSegments) = 1 /\ Len(appSegments) = 3

\* C36. Manual Next and Prev act only on a live session: with no timer armed
\* they command nothing, arm nothing and leave the session state alone; Prev
\* never targets a position below the first, and on a session playing the
\* first filtered segment it restarts that segment; Next on a session
\* playing the last filtered segment leaves timer, position and repeat
\* counter unchanged.
C36_NextPrevOnLiveSession ==
  /\ [][(op' \in {"handleNext", "handlePrev"} /\ pollingRef = {})
          => (SessionUntouched /\ ~threw')]_vars
  /\ [][(op' = "handlePrev" /\ pollingRef # {})
          => /\ \A r \in currentRef' : r.idx >= 0
             /\ (FilteredSegments # <<>> /\ Polling.seg = FilteredSegments[1]) =>
                  /\ pollingRef' # {}
                  /\ (CHOOSE c \in pollingRef' : TRUE).seg = Polling.seg
                  /\ HasCmd(cmds', "seek")]_vars
  /\ [][(op' = "handleNext" /\ pollingRef # {} /\ FilteredSegments # <<>>
          /\ Polling.seg = FilteredSegments[Len(FilteredSegments)])
          => SessionUntouched]_vars

====
